---- MODULE Spec2Model ----
(***************************************************************************)
(* A model of My_NN_Implementation/NeuralNetwork.py: the NeuralNet class,  *)
(* its mini-batch partitioner, parameter initialisation, forward and       *)
(* backward passes with inverted dropout, the momentum update, fit and     *)
(* predict.                                                                *)
(*                                                                         *)
(* Floating point arrays are modelled in fixed point: a number is an       *)
(* integer count of 1/SCALE units, |x| <= MaxNum, and every non-finite     *)
(* float (inf, -inf, nan) is the single value NaN.  A matrix is a sequence *)
(* of rows, each a sequence of numbers.  A dict keyed 'W' + str(l) is a    *)
(* function on the keys <<"W", l>>.                                        *)
(***************************************************************************)
EXTENDS Integers, Sequences, FiniteSets, TLC

\* ------------------------------------------------------------------ bounds
\* Largest number of examples (columns of X) init_mini_batches is given.
MaxM == 3
\* Largest number of training examples fit is called with.
FitMaxM == 2
\* Largest num_epochs a NeuralNet is constructed with.
MaxEpochs == 11
\* Fixed-point resolution: one unit is 1/SCALE.
SCALE == 100
\* Largest finite magnitude, in units; beyond it a float is non-finite.
MaxNum == 30000
\* fit calls followed on one NeuralNet.
MaxFitCalls == 1
\* Largest num_epochs explored with a keep_prob below 1 (random masks).
MaxDropoutEpochs == 2

\* ------------------------------------------------------- numbers (floats)
NaN == MaxNum + 1
\* A local name that has not been assigned yet.
Unbound == MaxNum + 2

Max(a, b) == IF a >= b THEN a ELSE b
Min(a, b) == IF a <= b THEN a ELSE b

\* floor(a / b) for any b # 0.
FloorDiv(a, b) == IF b > 0 THEN a \div b ELSE (0 - a) \div (0 - b)
\* Python's a % b: the result has the sign of b.
PyMod(a, b) == a - b * FloorDiv(a, b)

Norm(x) == IF x > MaxNum \/ x < 0 - MaxNum THEN NaN ELSE x
FromInt(k) == k * SCALE
Add(a, b) == IF a = NaN \/ b = NaN THEN NaN ELSE Norm(a + b)
Sub(a, b) == IF a = NaN \/ b = NaN THEN NaN ELSE Norm(a - b)
Neg(a) == IF a = NaN THEN NaN ELSE 0 - a
\* Products and quotients are rounded to the nearest unit.
Mul(a, b) ==
    IF a = NaN \/ b = NaN THEN NaN
    ELSE Norm(FloorDiv(2 * a * b + SCALE, 2 * SCALE))
\* x / 0 is inf or nan: non-finite either way.
Div(a, b) ==
    IF a = NaN \/ b = NaN \/ b = 0 THEN NaN
    ELSE Norm(FloorDiv(2 * a * SCALE + b, 2 * b))
\* k hundredths, in units.
Pct(k) == (k * SCALE) \div 100

\* ---------------------------------------------------------------- matrices
Rows(M) == Len(M)
Cols(M) == IF Len(M) = 0 THEN 0 ELSE Len(M[1])
Shape(M) == <<Rows(M), Cols(M)>>
\* The sequence Op(1), .., Op(n) and the (r, c) matrix of the Op(p, q), as
\* explicit tuples; the dict f as an explicit function.
Vec(n, Op(_)) == << >> \o [q \in 1..n |-> Op(q)]
Mat(r, c, Op(_, _)) ==
    << >> \o [p \in 1..r |-> << >> \o [q \in 1..c |-> Op(p, q)]]
Dict(f) == f @@ << >>
\* Op applied to the value e, which is then computed once however often Op
\* uses it.
Bind(e, Op(_)) == Op(e)
Zeros(r, c) == Mat(r, c, LAMBDA p, q : 0)
MapM(Op(_), M) == Mat(Rows(M), Cols(M), LAMBDA p, q : Op(M[p][q]))
Zip(Op(_, _), A, B) ==
    Mat(Rows(A), Cols(A), LAMBDA p, q : Op(A[p][q], B[p][q]))
Transpose(M, c) == Mat(c, Rows(M), LAMBDA q, p : M[p][q])

RECURSIVE SumSeq(_)
SumSeq(s) == IF Len(s) = 0 THEN 0 ELSE Add(s[1], SumSeq(Tail(s)))

\* cp.dot(A, B) for A of shape (r, k) and B of shape (k, c).
Dot(A, B, c) ==
    Mat(Rows(A), c,
        LAMBDA p, q : SumSeq(Vec(Rows(B), LAMBDA t : Mul(A[p][t], B[t][q]))))

\* Python's clamping of a slice bound i for a sequence of n items.
PyIdx(i, n) == IF i < 0 THEN Max(i + n, 0) ELSE Min(i, n)
\* M[:, start:stop]
SliceCols(M, start, stop) ==
    LET n == Cols(M)
        lo == PyIdx(start, n)
        hi == PyIdx(stop, n)
    IN  Vec(Rows(M), LAMBDA p : SubSeq(M[p], lo + 1, hi))
\* M[:, permutation]
TakeCols(M, permutation) ==
    Mat(Rows(M), Len(permutation), LAMBDA p, q : M[p][permutation[q]])

\* np.random.permutation over m column labels: every ordering of 1..m.
AllPermutations(m) ==
    {p \in [1..m -> 1..m] : \A a, c \in 1..m : p[a] = p[c] => a = c}

\* ------------------------------------------------------ init_mini_batches
\* num_batches = int(cp.floor(m/mb_size)), mb_size # 0.
NumBatches(m, mbs) == FloorDiv(m, mbs)

\* The loop over range(num_batches): the full batches.
FullBatches(shuffled_X, shuffled_y, mbs, num_batches) ==
    Vec(Max(num_batches, 0),
        LAMBDA n : << SliceCols(shuffled_X, (n - 1) * mbs, n * mbs),
                      SliceCols(shuffled_y, (n - 1) * mbs, n * mbs) >>)

\* A mutant: the remainder batch is appended whatever m % mb_size is.
RemainderBatchAlways(shuffled_X, shuffled_y, m, mbs, num_batches) ==
    << << SliceCols(shuffled_X, num_batches * mbs, m),
          SliceCols(shuffled_y, num_batches * mbs, m) >> >>

\* A mutant: the remainder examples are never batched.
RemainderBatchNever(shuffled_X, shuffled_y, m, mbs, num_batches) ==
    << >>

\* if m % mb_size != 0: the batch of the remaining columns.
RemainderBatch(shuffled_X, shuffled_y, m, mbs, num_batches) ==
    IF PyMod(m, mbs) # 0
    THEN << << SliceCols(shuffled_X, num_batches * mbs, m),
               SliceCols(shuffled_y, num_batches * mbs, m) >> >>
    ELSE << >>

\* shuffled_y = y[permutation].to_numpy().reshape((1,m))
ShuffleY(y, permutation) ==
    << Vec(Len(permutation), LAMBDA q : y[permutation[q]]) >>

\* init_mini_batches(X, y, mb_size) once the permutation is drawn.
\* X is (n_x, m); y holds m labels.  The result is the exception raised
\* ("none" when it returns) and the list returned.
init_mini_batches(X, y, mbs, permutation) ==
    LET m == Cols(X)
        shuffled_X == TakeCols(X, permutation)
        shuffled_y == ShuffleY(y, permutation)
    IN  IF mbs = 0
        THEN [exc |-> "ZeroDivisionError", mini_batches |-> << >>]
        ELSE LET num_batches == NumBatches(m, mbs)
             IN  [exc |-> "none",
                  mini_batches |->
                      FullBatches(shuffled_X, shuffled_y, mbs, num_batches)
                      \o RemainderBatch(shuffled_X, shuffled_y, m, mbs,
                                        num_batches)]

\* ------------------------------------------------------------- activations
\* 1/(1 + cp.exp(-Z)) for Z >= 0, in hundredths, sampled on a grid of Z; a
\* float64 sigmoid is exactly 1.0 from about Z = 37 on.
SigmoidUpper(Z) ==
    IF Z = 0 THEN Pct(50)
    ELSE IF 4 * Z < SCALE THEN Pct(53)
    ELSE IF 2 * Z < SCALE THEN Pct(59)
    ELSE IF 4 * Z < 3 * SCALE THEN Pct(65)
    ELSE IF Z < SCALE THEN Pct(70)
    ELSE IF 2 * Z < 3 * SCALE THEN Pct(77)
    ELSE IF Z < 2 * SCALE THEN Pct(85)
    ELSE IF Z < 3 * SCALE THEN Pct(92)
    ELSE IF Z < 5 * SCALE THEN Pct(97)
    ELSE IF Z < 37 * SCALE THEN Pct(99)
    ELSE SCALE

\* sigmoid(Z): 1/(1 + cp.exp(-Z)), elementwise
sigmoid(Z) ==
    IF Z = NaN THEN NaN
    ELSE IF Z >= 0 THEN SigmoidUpper(Z)
    ELSE SCALE - SigmoidUpper(0 - Z)

\* leaky_relu(Z): cp.where(Z >= 0, Z, Z*0.01), elementwise
leaky_relu(Z) == IF Z # NaN /\ Z >= 0 THEN Z ELSE Mul(Z, Pct(1))

\* lrelu_backward(dA, Z): dA * cp.where(Z >= 0, 1, 0.01), elementwise
lrelu_backward(dA, Z) ==
    Mul(dA, IF Z # NaN /\ Z >= 0 THEN FromInt(1) ELSE Pct(1))

\* sigmoid_backward(dA, Z): dA * sigmoid(Z) * (1 - sigmoid(Z)), elementwise
sigmoid_backward(dA, Z) ==
    Mul(dA, Mul(sigmoid(Z), Sub(FromInt(1), sigmoid(Z))))

\* cp.log(p) in hundredths, sampled on a grid of p; log(0) is -inf and the
\* log of a negative number is nan.
Log(p) ==
    IF p = NaN \/ p <= 0 THEN NaN
    ELSE IF 20 * p < SCALE THEN Pct(0 - 461)
    ELSE IF 10 * p < SCALE THEN Pct(0 - 300)
    ELSE IF 5 * p < SCALE THEN Pct(0 - 230)
    ELSE IF 10 * p < 3 * SCALE THEN Pct(0 - 161)
    ELSE IF 10 * p < 4 * SCALE THEN Pct(0 - 120)
    ELSE IF 2 * p < SCALE THEN Pct(0 - 92)
    ELSE IF 10 * p < 6 * SCALE THEN Pct(0 - 69)
    ELSE IF 10 * p < 7 * SCALE THEN Pct(0 - 51)
    ELSE IF 10 * p < 8 * SCALE THEN Pct(0 - 36)
    ELSE IF 10 * p < 9 * SCALE THEN Pct(0 - 22)
    ELSE IF p < SCALE THEN Pct(0 - 11)
    ELSE IF p = SCALE THEN 0
    ELSE IF p < 2 * SCALE THEN Pct(41)
    ELSE Pct(69)

\* ---------------------------------------------------- parameter stores
\* n[l] of the Python list n (indexed from 0).
Dim(n, l) == n[l + 1]
\* The keys 'W1'.. and 'b1'.. (or 'dW1'.., 'db1'..) of a store for layers 1..L.
Keys(wname, bname, L) == {<<wname, l>> : l \in 1..L} \cup {<<bname, l>> : l \in 1..L}
\* L = len(parameters) // 2
NumLayers(parameters) == Cardinality(DOMAIN parameters) \div 2

\* cp.random.randn(n[l], n[l-1])*0.001: the values one weight may be drawn
\* as, in units.
WeightDraws == {0 - 1, 1}
\* Every way to draw the weight matrices of layers 1..len(n)-1.
RandnDraws(n) ==
    LET L == Len(n)
        Mats(l) == [1..Dim(n, l) -> [1..Dim(n, l - 1) -> WeightDraws]]
    IN  {W \in [1..(L - 1) -> UNION {Mats(l) : l \in 1..(L - 1)}] :
            \A l \in 1..(L - 1) : W[l] \in Mats(l)}

\* init_params(n), given the weights W drawn: no entry at all when
\* len(n) < 2, as np.arange(1, L) is then empty.
init_params(n, W) ==
    Dict([k \in Keys("W", "b", Len(n) - 1) |->
             IF k[1] = "W" THEN W[k[2]] ELSE Zeros(Dim(n, k[2]), 1)])

\* init_v(n)
init_v(n) ==
    Dict([k \in Keys("dW", "db", Len(n) - 1) |->
             IF k[1] = "dW" THEN Zeros(Dim(n, k[2]), Dim(n, k[2] - 1))
             ELSE Zeros(Dim(n, k[2]), 1)])

\* ------------------------------------------------------------ init_dropout
\* cp.random.rand(..) < keep_prob[l]: the masks one entry may come out as.
MaskDraws(kp) ==
    IF kp >= SCALE THEN {TRUE} ELSE IF kp <= 0 THEN {FALSE} ELSE {TRUE, FALSE}
\* Every D init_dropout(keep_prob, m) may return for these layer_dims:
\* one (layer_dims[l], m) mask for each l in range(len(layer_dims)).
DropoutDraws(dims, kp, m) ==
    LET L == Len(dims)
        Masks(l) == [1..Dim(dims, l) -> [1..m -> MaskDraws(kp[l + 1])]]
    IN  {D \in [0..(L - 1) -> UNION {Masks(l) : l \in 0..(L - 1)}] :
            \A l \in 0..(L - 1) : D[l] \in Masks(l)}
\* keep_prob[l] raises IndexError when the list is shorter than layer_dims.
init_dropout_exc(dims, kp) ==
    IF Len(kp) < Len(dims) THEN "IndexError" ELSE "none"

\* cp.multiply(A, D) for a boolean mask D, then A /= kp
MaskOne(a, d) == IF d THEN a ELSE Mul(a, 0)
ApplyDropout(A, Dl, kp) ==
    Mat(Rows(A), Cols(A), LAMBDA p, q : Div(MaskOne(A[p][q], Dl[p][q]), kp))

\* --------------------------------------------------------- L_model_forward
\* linear_forward: Z = cp.dot(W, A_prev) + b, b broadcast over the columns.
linear_forward(A_prev, W, b) ==
    Bind(Dot(W, A_prev, Cols(A_prev)), LAMBDA WA :
        Mat(Rows(W), Cols(A_prev), LAMBDA p, q : Add(WA[p][q], b[p][1])))

\* The activation of Z and the cache ((A_prev, W, b), Z).
Activate(A_prev, W, b, Z, activation) ==
    [exc |-> "none",
     A |-> IF activation = "Sigmoid" THEN MapM(sigmoid, Z)
           ELSE MapM(leaky_relu, Z),
     cache |-> << <<A_prev, W, b>>, Z >>]

\* activation_forward(A_prev, W, b, activation); cp.dot raises ValueError
\* when the inner dimensions differ.
activation_forward(A_prev, W, b, activation) ==
    IF Cols(W) # Rows(A_prev)
    THEN [exc |-> "ValueError", A |-> << >>, cache |-> << >>]
    ELSE Activate(A_prev, W, b, linear_forward(A_prev, W, b), activation)

\* The dropout applications of one forward pass in 'train' mode, as
\* <<l, d, k>>: the activation of layer l is multiplied by D[str(d)] and
\* divided by keep_prob[k].  The loop body does it for l in 1..L-1, the
\* lines after the loop for l = L.
ForwardDropout(L) == {<<l, l, l>> : l \in 1..L}

\* The mask and keep_prob L_model_forward applies to the activation of
\* layer l: those ForwardDropout names.
ForwardMask(l, D, keep_prob, L) ==
    LET t == CHOOSE u \in ForwardDropout(L) : u[1] = l
    IN  [D |-> D[t[2]], kp |-> keep_prob[t[3] + 1]]
\* A = cp.multiply(A, D[str(l)]); A /= keep_prob[l]
ForwardMasked(A, l, D, keep_prob, L) ==
    Bind(ForwardMask(l, D, keep_prob, L), LAMBDA dm :
        ApplyDropout(A, dm.D, dm.kp))

\* for l in range(1, L): the hidden layers l..L-1, from activation A.
RECURSIVE HiddenForward(_, _, _, _, _, _, _, _)
HiddenForward(l, L, A, caches, parameters, D, keep_prob, mode) ==
    IF l >= L THEN [exc |-> "none", A |-> A, caches |-> caches]
    ELSE Bind(activation_forward(A, parameters[<<"W", l>>],
                                 parameters[<<"b", l>>], "Leaky ReLU"),
              LAMBDA f :
         IF f.exc # "none"
         THEN [exc |-> f.exc, A |-> << >>, caches |-> caches]
         ELSE HiddenForward(l + 1, L,
                            IF mode = "train"
                            THEN ForwardMasked(f.A, l, D, keep_prob, L)
                            ELSE f.A,
                            Append(caches, f.cache),
                            parameters, D, keep_prob, mode))

\* A mutant: with no 'W' + str(L) in the store the output layer is skipped.
OutputForwardSkip(A, parameters, L) ==
    IF <<"W", L>> \notin DOMAIN parameters
    THEN [exc |-> "none", A |-> A, cache |-> << >>]
    ELSE activation_forward(A, parameters[<<"W", L>>], parameters[<<"b", L>>],
                            "Sigmoid")

\* activation_forward(A, parameters['W' + str(L)], parameters['b' + str(L)],
\* 'Sigmoid'): with an empty store L is 0 and 'W0' is no key.
OutputForward(A, parameters, L) ==
    IF <<"W", L>> \notin DOMAIN parameters
    THEN [exc |-> "KeyError", A |-> << >>, cache |-> << >>]
    ELSE activation_forward(A, parameters[<<"W", L>>], parameters[<<"b", L>>],
                            "Sigmoid")

\* L_model_forward(X, parameters, dropout_params, mode), dropout_params
\* being (D, keep_prob) in 'train' mode and unused in 'test' mode.
L_model_forward(X, parameters, D, keep_prob, mode) ==
    Bind(NumLayers(parameters), LAMBDA L :
    Bind(HiddenForward(1, L, X, << >>, parameters, D, keep_prob, mode),
         LAMBDA h :
    IF h.exc # "none" THEN [exc |-> h.exc, AL |-> << >>, caches |-> << >>]
    ELSE Bind(OutputForward(h.A, parameters, L), LAMBDA f :
         IF f.exc # "none"
         THEN [exc |-> f.exc, AL |-> << >>, caches |-> << >>]
         ELSE Bind(IF mode = "train"
                   THEN ForwardMasked(f.A, L, D, keep_prob, L)
                   ELSE f.A,
                   LAMBDA AL :
              IF Shape(AL) # <<1, Cols(X)>>
              THEN [exc |-> "AssertionError", AL |-> << >>, caches |-> << >>]
              ELSE [exc |-> "none", AL |-> AL,
                    caches |-> Append(h.caches, f.cache)]))))

\* ------------------------------------------------------------ compute_cost
\* cp.sum(M)
SumM(M) == SumSeq(Vec(Rows(M), LAMBDA p : SumSeq(M[p])))

\* compute_cost(Y_true, Y_pred, parameters): 1/m raises ZeroDivisionError
\* for a batch of no example.
compute_cost(Y_true, Y_pred, parameters, lambd) ==
    LET m == Cols(Y_true)
        L == NumLayers(parameters)
    IN  IF m = 0 THEN [exc |-> "ZeroDivisionError", J |-> Unbound]
        ELSE LET terms == Vec(m, LAMBDA q :
                     Add(Mul(Y_true[1][q], Log(Y_pred[1][q])),
                         Mul(Sub(FromInt(1), Y_true[1][q]),
                             Log(Sub(FromInt(1), Y_pred[1][q])))))
                 cross_entropy ==
                     Mul(Neg(Div(FromInt(1), FromInt(m))), SumSeq(terms))
                 sq(x) == Mul(x, x)
                 L2_norm == SumSeq(Vec(L, LAMBDA l :
                                SumM(MapM(sq, parameters[<<"W", l>>]))))
                 L2_regularization ==
                     Mul(Div(lambd, FromInt(2 * m)), L2_norm)
             IN  [exc |-> "none", J |-> Add(cross_entropy, L2_regularization)]

\* -------------------------------------------------------- L_model_backward
\* linear_back(dZ, cache), cache being (A_prev, W, b):
\* dW = cp.dot(dZ, A_prev.T)/m + (lambd*W)/m, db = the row sums of dZ over m,
\* dA_prev = cp.dot(W.T, dZ).
linear_back(dZ, cache, lambd) ==
    LET A_prev == cache[1]
        W == cache[2]
        m == Cols(A_prev)
    IN  [dA_prev |-> Dot(Transpose(W, Cols(W)), dZ, m),
         dW |-> Bind(Dot(dZ, Transpose(A_prev, m), Rows(A_prev)), LAMBDA dZA :
                    Mat(Rows(W), Cols(W), LAMBDA p, q :
                        Add(Div(dZA[p][q], FromInt(m)),
                            Div(Mul(lambd, W[p][q]), FromInt(m))))),
         db |-> Mat(Rows(dZ), 1, LAMBDA p, q :
                    Div(SumSeq(dZ[p]), FromInt(m)))]

\* activation_back(dA, cache, activation), cache being (linear_cache, Z):
\* dZ from dA and Z, then linear_back.
activation_back(dA, cache, activation, lambd) ==
    linear_back(IF activation = "Sigmoid"
                THEN Zip(sigmoid_backward, dA, cache[2])
                ELSE Zip(lrelu_backward, dA, cache[2]),
                cache[1], lambd)

\* The dropout applications of one backward pass, as <<l, d, k>>: the
\* gradient with respect to the activation of layer l is multiplied by
\* D[str(d)] and divided by keep_prob[k].  dAL is the gradient of layer L;
\* the loop computes grads['dA' + str(l+1)], the dA_prev of layer l+1 and so
\* the gradient of layer l, for l = L-2 down to 0, and applies D[str(l)] and
\* keep_prob[l+1] to it.
BackwardDropout(L) == {<<L, L, L>>} \cup {<<l, l, l + 1>> : l \in 0..(L - 2)}

\* The mask and keep_prob L_model_backward applies to the gradient of the
\* activation of layer l: those BackwardDropout names.
BackwardMask(l, D, keep_prob, L) ==
    LET t == CHOOSE u \in BackwardDropout(L) : u[1] = l
    IN  [D |-> D[t[2]], kp |-> keep_prob[t[3] + 1]]
\* dA = cp.multiply(dA, D[..]); dA /= keep_prob[..]
BackwardMasked(dA, l, D, keep_prob, L) ==
    Bind(BackwardMask(l, D, keep_prob, L), LAMBDA dm :
        ApplyDropout(dA, dm.D, dm.kp))
\* The three entries of grads one layer's activation_back is unpacked into.
GradsOf(l, dA, dW, db) ==
    Dict([k \in {<<"dA", l>>, <<"dW", l>>, <<"db", l>>} |->
             IF k[1] = "dA" THEN dA ELSE IF k[1] = "dW" THEN dW ELSE db])

\* dAL = -(cp.divide(Y, AL) - cp.divide(1 - Y, 1 - AL)), elementwise
CostGradient(y, al) ==
    Neg(Sub(Div(y, al), Div(Sub(FromInt(1), y), Sub(FromInt(1), al))))

\* for l in reversed(range(L-1)): from l down to 0.
RECURSIVE HiddenBackward(_, _, _, _, _, _, _)
HiddenBackward(l, L, grads, caches, D, keep_prob, lambd) ==
    IF l < 0 THEN grads
    ELSE Bind(activation_back(grads[<<"dA", l + 2>>], caches[l + 1],
                              "Leaky ReLU", lambd),
              LAMBDA g :
         HiddenBackward(l - 1, L,
                        grads @@ GradsOf(l + 1,
                                         BackwardMasked(g.dA_prev, l, D,
                                                        keep_prob, L),
                                         g.dW, g.db),
                        caches, D, keep_prob, lambd))

\* L_model_backward(AL, Y, caches, dropout_params)
L_model_backward(AL, Y, caches, D, keep_prob, lambd) ==
    Bind(Len(caches), LAMBDA L :
    Bind(activation_back(BackwardMasked(Zip(CostGradient, Y, AL), L, D,
                                        keep_prob, L),
                         caches[L], "Sigmoid", lambd),
         LAMBDA g :
    HiddenBackward(L - 2, L, GradsOf(L, g.dA_prev, g.dW, g.db), caches, D,
                   keep_prob, lambd)))

\* ----------------------------------------------------------- update_params
\* update_params(parameters, grads, v, lr): for every layer,
\* v = beta*v + (1 - beta)*grad, then parameter -= v*lr.
update_params(parameters, grads, v_old, lr_, beta_) ==
    LET L == NumLayers(parameters)
        gkey(k) == IF k[1] = "W" \/ k[1] = "dW" THEN <<"dW", k[2]>>
                   ELSE <<"db", k[2]>>
        avg(old, g) == Add(Mul(beta_, old), Mul(Sub(FromInt(1), beta_), g))
        step(w, vv) == Sub(w, Mul(vv, lr_))
    IN  Bind(Dict([k \in DOMAIN v_old |->
                      IF k[2] <= L THEN Zip(avg, v_old[k], grads[k])
                      ELSE v_old[k]]),
             LAMBDA v_new :
             [parameters |-> Dict([k \in DOMAIN parameters |->
                                     Zip(step, parameters[k], v_new[gkey(k)])]),
              v |-> v_new])

\* ================================================================== state
VARIABLES
    \* the fields of the NeuralNet object
    layer_dims, lr, num_epochs, lambd, beta, print_cost, trained_params, fitted,
    \* the module's namespace: which of the free names fit reads are bound,
    \* and the list the global keep_prob is bound to
    module_globals, keep_prob,
    \* where the interpreter is, the last method called from outside, the
    \* exception it raised ("none" if it returned) and what it returned
    pc, call, exc, ret,
    \* the locals of fit (X_train and Y_train are rebound to each batch)
    X_train, Y_train, mb_size, parameters, v, mini_batches, costs, i, b, cost,
    \* the permutation init_mini_batches drew last
    permutation,
    \* history: fit calls so far; what the current fit call was given and
    \* how often it has called each initialiser; the dropout applications of
    \* the last batch's forward and backward pass; the epoch and batch the
    \* value of cost was computed on; the argument of the last predict; and,
    \* for each input predict returned on since the last fit call, the first
    \* result and whether it was called once or more often
    fit_calls, fit_trace, fwd_dropout, bwd_dropout, cost_of, pred_X, pred_log

self_vars ==
    <<layer_dims, lr, num_epochs, lambd, beta, print_cost, trained_params, fitted>>
env_vars == <<module_globals, keep_prob>>
fit_locals ==
    <<X_train, Y_train, mb_size, parameters, v, mini_batches, costs, i, b, cost>>
hist_vars == <<fit_calls, fit_trace, fwd_dropout, bwd_dropout, cost_of, pred_X, pred_log>>
vars == <<self_vars, env_vars, pc, call, exc, ret, fit_locals, permutation, hist_vars>>

\* ------------------------------------------------------------------ inputs
\* The layer_dims a NeuralNet is constructed with: too short to have a
\* layer, and networks of one and two layers on a one-feature input.
LayerDimsSet == { << >>, <<1>>, <<1, 1>>, <<1, 1, 1>> }
NumEpochsSet == {0, 1, 2, MaxEpochs}
\* The lists the global keep_prob may be bound to for layer_dims n: no
\* dropout, or a keep probability of 0.5 for layer 1.
KeepProbs(n) ==
    { [l \in 1..Len(n) |-> SCALE],
      [l \in 1..Len(n) |-> IF l = 2 THEN Pct(50) ELSE SCALE] }
\* The training set of m examples: one feature, values 1, 0, 1, .. and the
\* labels 1, 0, 0, ..
TrainX(m) == << Vec(m, LAMBDA q : FromInt(q % 2)) >>
TrainY(m) == Vec(m, LAMBDA q : IF q = 1 THEN FromInt(1) ELSE 0)
\* The mb_size fit is called with.
MbSizes == {0 - 2, 0, 1, 2}
\* The arrays predict is called with: two examples of one feature, and one
\* example of two features.
PredictInputs == { << <<0, FromInt(1)>> >>, << <<FromInt(1)>>, <<0>> >> }

NoTrace == [init_params |-> 0, init_v |-> 0, permutation |-> 0,
            init_mini_batches |-> 0, m |-> 0, mb_size |-> 0]

\* The locals of fit before the call and after the frame is gone.
NoLocals ==
    /\ X_train = << >> /\ Y_train = << >> /\ mb_size = 0
    /\ parameters = << >> /\ v = << >> /\ mini_batches = << >>
    /\ costs = << >> /\ i = 0 /\ b = 0 /\ cost = Unbound

Construct(dimsSet) ==
    /\ layer_dims \in dimsSet
    /\ lr = FromInt(1)
    /\ num_epochs \in NumEpochsSet
    /\ lambd = Pct(10)
    /\ beta = Pct(90)
    /\ print_cost \in BOOLEAN
    /\ trained_params = << >>
    /\ fitted = FALSE

Init ==
    /\ Construct(LayerDimsSet)
    /\ module_globals \in SUBSET {"keep_prob", "plt"}
    /\ keep_prob \in IF "keep_prob" \in module_globals
                     THEN {kp \in KeepProbs(layer_dims) :
                              num_epochs > MaxDropoutEpochs
                                  => \A l \in 1..Len(kp) : kp[l] = SCALE}
                     ELSE { << >> }
    /\ pc = "idle" /\ call = "none" /\ exc = "none" /\ ret = << >>
    /\ NoLocals
    /\ permutation = << >>
    /\ fit_calls = 0 /\ fit_trace = NoTrace
    /\ fwd_dropout = {} /\ bwd_dropout = {} /\ cost_of = << >>
    /\ pred_X = << >> /\ pred_log = << >>

\* --------------------------------------------------------------------- fit
\* An exception leaves fit: the frame and its locals are gone.
FitRaises(e) ==
    /\ pc' = "idle" /\ exc' = e /\ ret' = << >>
    /\ X_train' = << >> /\ Y_train' = << >> /\ mb_size' = 0
    /\ parameters' = << >> /\ v' = << >> /\ mini_batches' = << >>
    /\ costs' = << >> /\ i' = 0 /\ b' = 0 /\ cost' = Unbound
    /\ permutation' = << >>

\* fit, up to the epoch loop: init_params, init_v, init_mini_batches and
\* costs = [].
FitCall ==
    /\ pc = "idle" /\ fit_calls < MaxFitCalls
    /\ \E m \in 0..FitMaxM, mbs \in MbSizes :
       \E W \in RandnDraws(layer_dims), perm \in AllPermutations(m) :
          \E r \in {init_mini_batches(TrainX(m), TrainY(m), mbs, perm)} :
              /\ call' = "fit"
              /\ fit_calls' = fit_calls + 1
              /\ fit_trace' = [init_params |-> 1, init_v |-> 1,
                               permutation |-> 1,
                               init_mini_batches |->
                                   IF r.exc = "none" THEN 1 ELSE 0,
                               m |-> m, mb_size |-> mbs]
              /\ IF r.exc # "none"
                 THEN FitRaises(r.exc)
                 ELSE /\ X_train' = TrainX(m) /\ Y_train' = TrainY(m)
                      /\ mb_size' = mbs
                      /\ parameters' = init_params(layer_dims, W)
                      /\ v' = init_v(layer_dims)
                      /\ mini_batches' = r.mini_batches
                      /\ permutation' = perm
                      /\ costs' = << >> /\ i' = 0 /\ b' = 0 /\ cost' = Unbound
                      /\ pc' = IF 0 < num_epochs THEN "batch" ELSE "plot"
                      /\ exc' = "none" /\ ret' = << >>
    /\ fwd_dropout' = {} /\ bwd_dropout' = {} /\ cost_of' = << >>
    /\ pred_X' = << >> /\ pred_log' = << >>
    /\ UNCHANGED <<self_vars, env_vars>>

\* One pass of the loop over range(len(mini_batches)): the batch is
\* unpacked, the masks are drawn, then forward, cost, backward and update.
BatchStep ==
    /\ pc = "batch" /\ b < Len(mini_batches)
    /\ LET Xb == mini_batches[b + 1][1]
           Yb == mini_batches[b + 1][2]
       IN  IF "keep_prob" \notin module_globals
           THEN FitRaises("NameError") /\ UNCHANGED <<fwd_dropout, bwd_dropout, cost_of>>
           ELSE IF init_dropout_exc(layer_dims, keep_prob) # "none"
           THEN /\ FitRaises(init_dropout_exc(layer_dims, keep_prob))
                /\ UNCHANGED <<fwd_dropout, bwd_dropout, cost_of>>
           ELSE \E D \in DropoutDraws(layer_dims, keep_prob, Cols(Xb)) :
                \E f \in {L_model_forward(Xb, parameters, D, keep_prob,
                                          "train")} :
                   IF f.exc # "none"
                   THEN /\ FitRaises(f.exc)
                        /\ UNCHANGED <<fwd_dropout, bwd_dropout, cost_of>>
                   ELSE \E c \in {compute_cost(Yb, f.AL, parameters, lambd)} :
                   IF c.exc # "none"
                   THEN /\ FitRaises(c.exc)
                        /\ fwd_dropout' = ForwardDropout(NumLayers(parameters))
                        /\ UNCHANGED <<bwd_dropout, cost_of>>
                   ELSE \E u \in {update_params(parameters,
                                      L_model_backward(f.AL, Yb, f.caches, D,
                                                       keep_prob, lambd),
                                      v, lr, beta)} :
                        /\ X_train' = Xb /\ Y_train' = Yb
                        /\ cost' = c.J
                        /\ parameters' = u.parameters /\ v' = u.v
                        /\ b' = b + 1
                        /\ fwd_dropout' = ForwardDropout(NumLayers(parameters))
                        /\ bwd_dropout' = BackwardDropout(NumLayers(parameters))
                        /\ cost_of' = <<i, b>>
                        /\ UNCHANGED <<pc, exc, ret, mb_size, mini_batches,
                                       costs, i, permutation>>
    /\ UNCHANGED <<self_vars, env_vars, call, fit_calls, fit_trace, pred_X,
                   pred_log>>

\* print_cost and i % 10 == 0: the epochs whose cost is printed and recorded.
CostInterval == 10
\* A mutant: the cost of every epoch is recorded, printed or not.
RecordsCostEveryEpoch(pcost, epoch) == TRUE
RecordsCost(pcost, epoch) == pcost /\ epoch % CostInterval = 0

\* A mutant: the end of an epoch draws a fresh permutation and partitions
\* the training set again for the next epoch.
EpochEndRepartition ==
    /\ pc = "batch" /\ b >= Len(mini_batches)
    /\ IF RecordsCost(print_cost, i) /\ cost = Unbound
       THEN FitRaises("UnboundLocalError") /\ UNCHANGED fit_trace
       ELSE \E perm \in AllPermutations(fit_trace.m) :
            /\ costs' = IF RecordsCost(print_cost, i)
                        THEN Append(costs, cost) ELSE costs
            /\ i' = i + 1 /\ b' = 0
            /\ pc' = IF i + 1 < num_epochs THEN "batch" ELSE "plot"
            /\ mini_batches' =
                   init_mini_batches(TrainX(fit_trace.m), TrainY(fit_trace.m),
                                     mb_size, perm).mini_batches
            /\ permutation' = perm
            /\ fit_trace' = [fit_trace EXCEPT !.permutation = @ + 1,
                                              !.init_mini_batches = @ + 1]
            /\ UNCHANGED <<exc, ret, X_train, Y_train, mb_size, parameters, v,
                           cost>>
    /\ UNCHANGED <<self_vars, env_vars, call, fit_calls, fwd_dropout,
                   bwd_dropout, cost_of, pred_X, pred_log>>

\* The end of one pass of the epoch loop: the batch loop is exhausted, the
\* cost is printed and appended to costs if print_cost and i % 10 == 0, and
\* the next epoch starts on the same mini_batches.
EpochEnd ==
    /\ pc = "batch" /\ b >= Len(mini_batches)
    /\ IF RecordsCost(print_cost, i) /\ cost = Unbound
       THEN FitRaises("UnboundLocalError")
       ELSE /\ costs' = IF RecordsCost(print_cost, i)
                        THEN Append(costs, cost) ELSE costs
            /\ i' = i + 1 /\ b' = 0
            /\ pc' = IF i + 1 < num_epochs THEN "batch" ELSE "plot"
            /\ UNCHANGED <<exc, ret, X_train, Y_train, mb_size, parameters, v,
                           mini_batches, cost, permutation>>
    /\ UNCHANGED <<self_vars, env_vars, call, hist_vars>>

\* After the epoch loop: plt.plot(costs) and the labels, then the
\* parameters are stored and returned.
FitFinish ==
    /\ pc = "plot"
    /\ IF "plt" \notin module_globals
       THEN FitRaises("NameError") /\ UNCHANGED <<trained_params, fitted, pred_log>>
       ELSE /\ trained_params' = parameters
            /\ fitted' = TRUE
            /\ ret' = parameters
            /\ exc' = "none" /\ pc' = "idle"
            /\ pred_log' = << >>
            /\ X_train' = << >> /\ Y_train' = << >> /\ mb_size' = 0
            /\ parameters' = << >> /\ v' = << >> /\ mini_batches' = << >>
            /\ costs' = << >> /\ cost' = Unbound /\ permutation' = << >>
            /\ UNCHANGED <<i, b>>
    /\ UNCHANGED <<layer_dims, lr, num_epochs, lambd, beta, print_cost,
                   env_vars, call, fit_calls, fit_trace, fwd_dropout,
                   bwd_dropout, cost_of, pred_X>>

\* ----------------------------------------------------------------- predict
\* A mutant: a probability of exactly 0.5 is labelled 1.
LabelsAtLeastHalf(probas) ==
    << Vec(Cols(probas), LAMBDA q :
           IF probas[1][q] # NaN /\ probas[1][q] >= Pct(50)
           THEN FromInt(1) ELSE 0) >>

\* y[0,i] = 1 if probas[0,i] > 0.5 else 0, y being np.zeros((1,m))
Labels(probas) ==
    << Vec(Cols(probas), LAMBDA q :
           IF probas[1][q] # NaN /\ probas[1][q] > Pct(50)
           THEN FromInt(1) ELSE 0) >>

\* predict(X): the forward pass in 'test' mode on trained_params, then the
\* labels; what it returns is (y, probas).
predict(X, params) ==
    Bind(L_model_forward(X, params, << >>, << >>, "test"), LAMBDA f :
        [exc |-> f.exc,
         ret |-> IF f.exc = "none" THEN <<Labels(f.AL), f.AL>> ELSE << >>])

Predict ==
    /\ pc = "idle"
    /\ \E X \in PredictInputs :
          \E r \in {predict(X, trained_params)} :
              /\ call' = "predict" /\ exc' = r.exc /\ ret' = r.ret
              /\ pred_X' = X
              /\ pred_log' =
                    IF r.exc # "none" THEN pred_log
                    ELSE IF X \notin DOMAIN pred_log
                    THEN pred_log @@ (X :> [ret |-> r.ret, calls |-> 1])
                    ELSE [pred_log EXCEPT ![X].calls = 2]
    /\ UNCHANGED <<self_vars, env_vars, pc, fit_locals, permutation, fit_calls,
                   fit_trace, fwd_dropout, bwd_dropout, cost_of>>

Next == FitCall \/ BatchStep \/ EpochEnd \/ FitFinish \/ Predict

Spec == Init /\ [][Next]_vars

\* ------------------------------------------------- init_mini_batches alone
\* init_mini_batches called from outside on a training set of up to MaxM
\* examples of one feature: X_train, Y_train and mb_size hold the arguments,
\* permutation the permutation drawn and ret the list returned.
PartitionX(m) == { <<x>> : x \in [1..m -> {0, FromInt(1)}] }
PartitionY(m) == [1..m -> {0, FromInt(1)}]
PartitionMbSizes == (0 - 2)..(MaxM + 1)

\* An object none of whose methods has been called, constructed with dims.
Untouched(dims) ==
    /\ Construct({dims}) /\ num_epochs = 0 /\ print_cost = FALSE
    /\ module_globals = {} /\ keep_prob = << >>
    /\ pc = "idle" /\ call = "none" /\ exc = "none" /\ ret = << >>
    /\ parameters = << >> /\ v = << >> /\ mini_batches = << >>
    /\ costs = << >> /\ i = 0 /\ b = 0 /\ cost = Unbound
    /\ permutation = << >>
    /\ fit_calls = 0 /\ fit_trace = NoTrace
    /\ fwd_dropout = {} /\ bwd_dropout = {} /\ cost_of = << >>
    /\ pred_X = << >> /\ pred_log = << >>

InitPartition ==
    /\ Untouched(<<1, 1>>)
    /\ \E m \in 0..MaxM : X_train \in PartitionX(m) /\ Y_train \in PartitionY(m)
    /\ mb_size \in PartitionMbSizes

PartitionCall ==
    /\ pc = "idle"
    /\ \E perm \in AllPermutations(Cols(X_train)) :
          LET r == init_mini_batches(X_train, Y_train, mb_size, perm)
          IN  /\ call' = "init_mini_batches"
              /\ exc' = r.exc /\ ret' = r.mini_batches
              /\ permutation' = perm
    /\ UNCHANGED <<self_vars, env_vars, pc, fit_locals, hist_vars>>

NextPartition == PartitionCall

SpecPartition == InitPartition /\ [][NextPartition]_vars

\* ------------------------------------------------------- init_params alone
\* init_params called from outside on the object's layer_dims: lists of up
\* to MaxDims widths of 1..MaxWidth units.  ret holds the store returned.
MaxDims == 3
MaxWidth == 2
InitParamsDims == UNION { [1..k -> 1..MaxWidth] : k \in 0..MaxDims }

InitInitParams ==
    /\ \E dims \in InitParamsDims : Untouched(dims)
    /\ X_train = << >> /\ Y_train = << >> /\ mb_size = 0

InitParamsCall ==
    /\ pc = "idle"
    /\ \E W \in RandnDraws(layer_dims) :
          /\ call' = "init_params"
          /\ exc' = "none" /\ ret' = init_params(layer_dims, W)
    /\ UNCHANGED <<self_vars, env_vars, pc, fit_locals, permutation, hist_vars>>

NextInitParams == InitParamsCall

SpecInitParams == InitInitParams /\ [][NextInitParams]_vars

\* ================================================================== claims
\* ------------------------------------------------- init_mini_batches (C2, C10)
\* The examples of X and y in order: each column of X with its label.
Examples(X, y) ==
    Vec(Cols(X), LAMBDA q : << Vec(Rows(X), LAMBDA p : X[p][q]), y[q] >>)
\* The examples of a list of batches, batch after batch.
RECURSIVE BatchExamples(_)
BatchExamples(batches) ==
    IF Len(batches) = 0 THEN << >>
    ELSE Examples(batches[1][1], batches[1][2][1])
         \o BatchExamples(Tail(batches))
\* How often e occurs in the sequence s.
Count(e, s) == Cardinality({q \in DOMAIN s : s[q] = e})
PartitionReturned ==
    call = "init_mini_batches" /\ Cols(X_train) >= 1 /\ mb_size >= 1

\* C2: for m >= 1 and mb_size >= 1 init_mini_batches returns, and every
\* example (a column of X with its label) occurs in the batches returned,
\* the remainder batch included, exactly as often as in the input: none is
\* duplicated, none omitted, and every column keeps its own label.
PartitionCoversEveryExampleOnce ==
    PartitionReturned =>
        /\ exc = "none"
        /\ Len(BatchExamples(ret)) = Cols(X_train)
        /\ \A x, y \in {0, FromInt(1)} :
              Count(<< <<x>>, y >>, BatchExamples(ret))
                  = Count(<< <<x>>, y >>, Examples(X_train, Y_train))

\* Three examples, two of them equal, shuffled out of their input order and
\* split into a full batch and a remainder batch.
PartitionCoverWitness ==
    /\ PartitionReturned /\ exc = "none"
    /\ Cols(X_train) = 3 /\ mb_size = 2 /\ Len(ret) = 2
    /\ permutation = <<3, 1, 2>>
    /\ X_train = << <<0, FromInt(1), 0>> >>
    /\ Y_train = <<FromInt(1), 0, FromInt(1)>>

\* C10: for m >= 1 and mb_size >= 1 the batches are the contiguous chunks of
\* the shuffled examples in order: floor(m/mb_size) batches of mb_size
\* examples, then one batch of m mod mb_size examples only if that is not
\* zero; so there are ceil(m/mb_size) batches, each of 1..mb_size examples.
PartitionContiguousChunks ==
    PartitionReturned =>
        LET m == Cols(X_train)
            full == m \div mb_size
            rest == m % mb_size
        IN  /\ exc = "none"
            /\ Len(ret) = full + (IF rest # 0 THEN 1 ELSE 0)
            /\ Len(ret) = (m + mb_size - 1) \div mb_size
            /\ \A n \in 1..Len(ret) :
                  LET k == Cols(ret[n][1])
                  IN  /\ k = IF n <= full THEN mb_size ELSE rest
                      /\ 1 <= k /\ k <= mb_size
                      /\ Shape(ret[n][1]) = <<Rows(X_train), k>>
                      /\ Shape(ret[n][2]) = <<1, k>>
                      /\ \A q \in 1..k :
                            LET src == permutation[(n - 1) * mb_size + q]
                            IN  /\ \A p \in 1..Rows(X_train) :
                                      ret[n][1][p][q] = X_train[p][src]
                                /\ ret[n][2][1][q] = Y_train[src]

\* Three examples in batches of two: one full batch and a remainder of one.
PartitionChunksWitness ==
    /\ PartitionReturned /\ exc = "none"
    /\ Cols(X_train) = 3 /\ mb_size = 2
    /\ Len(ret) = 2 /\ Cols(ret[1][1]) = 2 /\ Cols(ret[2][1]) = 1
    /\ permutation = <<2, 3, 1>>

\* ------------------------------------------------------------ init_params (C6)
\* C6: init_params raises for a layer_dims of fewer than 2 entries and
\* otherwise returns exactly the keys W1..WL, b1..bL, W_l of shape
\* (n[l], n[l-1]) and b_l of shape (n[l], 1).
InitParamsRejectsShortDims ==
    call = "init_params" =>
        IF Len(layer_dims) < 2
        THEN exc # "none" /\ ret = << >>
        ELSE /\ exc = "none"
             /\ DOMAIN ret = Keys("W", "b", Len(layer_dims) - 1)
             /\ \A l \in 1..(Len(layer_dims) - 1) :
                   /\ Shape(ret[<<"W", l>>])
                          = <<Dim(layer_dims, l), Dim(layer_dims, l - 1)>>
                   /\ Shape(ret[<<"b", l>>]) = <<Dim(layer_dims, l), 1>>

\* -------------------------------------------------------------------- fit
\* A fit call on a network with at least one layer, at least one example
\* and a positive mb_size has ended, in the module as it stands: neither
\* keep_prob nor plt is a name of it.
ValidFitEnded ==
    /\ call = "fit" /\ pc = "idle"
    /\ Len(layer_dims) >= 2 /\ fit_trace.m >= 1 /\ fit_trace.mb_size >= 1
    /\ module_globals = {}

\* C1: for m >= 1 and mb_size >= 1 fit ends without raising, having run
\* num_epochs epochs: it has stored the parameters in trained_params, set
\* fitted and returned those parameters.
FitCompletesNormally ==
    ValidFitEnded =>
        /\ exc = "none" /\ fitted
        /\ i = num_epochs
        /\ ret = trained_params /\ trained_params # << >>

\* C7: a fit call with mb_size <= 0 raises before anything is computed: it
\* has allocated no parameters and no momentum, drawn no permutation and
\* holds no list of mini-batches, in particular none with an empty batch.
NonPositiveBatchSizeRejected ==
    (call = "fit" /\ fit_trace.mb_size <= 0) =>
        /\ pc = "idle" /\ exc # "none"
        /\ fit_trace.init_params = 0 /\ fit_trace.init_v = 0
        /\ fit_trace.permutation = 0 /\ fit_trace.init_mini_batches = 0
        /\ \A n \in 1..Len(mini_batches) : Cols(mini_batches[n][1]) >= 1

BackwardMirrorsForwardDropout ==
    cost_of # << >> => bwd_dropout = fwd_dropout

\* ---------------------------------------------------------------- predict
\* C4: predict on an object on which fit has not completed (fitted False,
\* trained_params empty) raises, whatever X is, and returns nothing.
PredictUnfittedRejected ==
    (call = "predict" /\ ~fitted) =>
        /\ trained_params = << >>
        /\ exc # "none" /\ ret = << >>

\* predict has been called on a new object, and on one whose fit raised.
PredictUnfittedWitness ==
    /\ call = "predict" /\ ~fitted /\ trained_params = << >>
    /\ exc = "KeyError" /\ pred_X = << <<0, FromInt(1)>> >>
    /\ Len(layer_dims) >= 2

\* C5: a predict call changes no field of the object (trained_params and
\* fitted included) and nothing else but what it returns; the forward pass
\* is the 'test' one, which reads no mask; what it returns for X is what
\* the first call with X on the same trained_params returned; every label
\* is 0 or 1, and 1 exactly when its probability is greater than 0.5.
PredictIsPure ==
    [][call' = "predict" =>
           /\ UNCHANGED <<self_vars, env_vars, pc, fit_locals, permutation>>
           /\ exc' = "none" =>
                 /\ Len(ret') = 2
                 /\ Shape(ret'[1]) = <<1, Cols(pred_X')>>
                 /\ Shape(ret'[2]) = <<1, Cols(pred_X')>>
                 /\ \A q \in 1..Cols(pred_X') :
                       /\ ret'[1][1][q] \in {0, FromInt(1)}
                       /\ ret'[1][1][q] = FromInt(1)
                              <=> (ret'[2][1][q] # NaN
                                   /\ 2 * ret'[2][1][q] > FromInt(1))
                 /\ pred_X' \in DOMAIN pred_log =>
                       ret' = pred_log[pred_X'].ret]_vars

\* A fitted model has answered the same input a second time, with a
\* probability of exactly 0.5 labelled 0 and a larger one labelled 1.
PredictTwiceWitness ==
    /\ call = "predict" /\ fitted /\ exc = "none"
    /\ pred_X \in DOMAIN pred_log /\ pred_log[pred_X].calls = 2
    /\ ret = pred_log[pred_X].ret
    /\ \E q \in 1..Cols(pred_X) :
          2 * ret[2][1][q] = FromInt(1) /\ ret[1][1][q] = 0
    /\ \E q \in 1..Cols(pred_X) :
          ret[2][1][q] # NaN /\ 2 * ret[2][1][q] > FromInt(1)
          /\ ret[1][1][q] = FromInt(1)

====
